---- MODULE Spec2Model ----
(***************************************************************************)
(* Event aggregator with deduplication (src/src/aggregator.py,             *)
(* src/src/dedup_store.py).                                                *)
(*                                                                         *)
(* One asyncio event loop runs the publish() calls, the five consumer      *)
(* tasks and stop(); every store operation is handed to a thread with      *)
(* asyncio.to_thread and runs there under DeduplicationStore.lock.  A      *)
(* coroutine therefore moves in steps that end at an await: the step that  *)
(* submits a store operation, the step of the thread that executes it      *)
(* (atomic, under the lock), and the step that resumes the coroutine with  *)
(* the result.  Other coroutines and threads interleave between them.      *)
(***************************************************************************)
EXTENDS Naturals, Integers, Sequences, FiniteSets, TLC

\* ---------------------------------------------------------------- bounds
NumPublishers == 2      \* concurrent callers of publish()
MaxEvents == 3          \* events handed to publish() while in service
MaxLifeEvents == 2      \* events handed to publish() over a life with shutdowns
MaxBatch == 2           \* longest batch of one publish() call
MaxClock == 1           \* largest reading of the wall clock
MaxRestarts == 1        \* store/aggregator pairs re-opened on the same file
MaxClears == 1          \* calls of clear()
MaxDirect == 3          \* direct calls of the store's mark_processed
MaxFaultEvents == 2     \* events handed to publish() on a store that may raise
MaxFaults == 1          \* store operations that raise a fault
MaxStatEvents == 2      \* events handed to publish() while the queries run
MaxTime == 3            \* largest reading of the clock when only time passes

\* ------------------------------------------------------ program constants
NumWorkers == 5         \* range(5) in EventAggregator.start

Topics == {"a", "b"}
EventIds == {1, 2}
\* The identities publishers use: two of one topic, one of another.
Ids == {<<"a", 1>>, <<"a", 2>>, <<"b", 1>>}
Publishers == 1..NumPublishers
Workers == 1..NumWorkers

\* An Event (model.py): topic, event_id, timestamp.  source and payload are
\* opaque to the aggregator and the store and are left out.  The timestamp
\* is supplied by the caller; publisher p stamps its events with p.
Event(t, i, ts) == [topic |-> t, event_id |-> i, timestamp |-> ts]
NoEvent == Event("", 0, 0)
EventsOf(p) == {Event(id[1], id[2], p) : id \in Ids}

\* The identity key (topic, event_id).
Identity(e) == <<e.topic, e.event_id>>

\* A row of the table processed_events.
Row(t, i, ts, at) == [topic |-> t, event_id |-> i, timestamp |-> ts, processed_at |-> at]
RowIds(rows) == {<<r.topic, r.event_id>> : r \in rows}

VARIABLES
    conn,        \* rows seen through DeduplicationStore.conn
    disk,        \* rows committed to the file db_path
    closed,      \* conn.close() has run
    now,         \* last reading of datetime.now()
    queue,       \* EventAggregator.queue
    stats,       \* EventAggregator.stats (received, unique_processed, duplicate_dropped)
    running,     \* EventAggregator.running
    tasks,       \* EventAggregator.consumer_tasks is non-empty
    workers,     \* position of each consumer task
    pubs,        \* position of each publish() call
    stopPc,      \* position of the stop() call
    orphans,     \* inserts still owned by a thread after their task was cancelled
    fetched,     \* result of the last get_events call
    fetchArg,    \* its topic argument
    store0,      \* history: the rows on file when the store was constructed
    pubCount,    \* history: events per identity counted by publish() in this aggregator
    markTrue,    \* history: mark_processed calls per identity that returned True
    markFalse,   \* history: mark_processed calls per identity that returned False
    handed,      \* history: events handed to publish() so far
    budget,      \* history: the number of events the run may hand to publish()
    accepted,    \* history: identities inserted through store instances now closed
    gen,         \* history: number of restarts
    clears,      \* history: number of clear() calls
    direct,      \* history: number of direct mark_processed calls
    faults,      \* history: number of store operations that raised a fault
    faultBudget, \* history: the number of faults the run may suffer
    raised,      \* a stop() or close() call ended with an exception
    statCall,    \* position and result of the get_stats call
    stops,       \* history: stop() calls of this aggregator that returned, up to 2
    poolStart,   \* history: the reading of the clock when start() created the pool
    oldLive      \* consumer tasks still running that start() dropped from consumer_tasks

vars == <<conn, disk, closed, now, queue, stats, running, tasks, workers, pubs,
          stopPc, orphans, fetched, fetchArg, store0, pubCount, markTrue,
          markFalse, handed, budget, accepted, gen, clears, direct, faults,
          faultBudget, raised, statCall, stops, poolStart, oldLive>>

\* ------------------------------------------------------------------ store

\* Mutant: the SELECT compares the topic only.
sync_check_topic_only(rows, topic, event_id) ==
    \E r \in rows : r.topic = topic

\* _sync_check: SELECT 1 ... WHERE topic = ? AND event_id = ?
sync_check(rows, topic, event_id) ==
    \E r \in rows : r.topic = topic /\ r.event_id = event_id

\* Mutant: the table has no primary key, the INSERT never raises.
IntegrityError_never(rows, topic, event_id) == FALSE

\* PRIMARY KEY (topic, event_id): would the INSERT raise IntegrityError?
IntegrityError(rows, topic, event_id) ==
    \E r \in rows : r.topic = topic /\ r.event_id = event_id

\* Mutant: the IntegrityError is swallowed, the call returns True.
sync_mark_result_true(rows, topic, event_id) == TRUE

\* _sync_mark, the returned value.
sync_mark_result(rows, topic, event_id) == ~IntegrityError(rows, topic, event_id)

\* Mutant: INSERT OR REPLACE, the new row takes the place of the old one.
sync_mark_rows_replace(rows, topic, event_id, timestamp, at) ==
    {r \in rows : ~(r.topic = topic /\ r.event_id = event_id)}
        \cup {Row(topic, event_id, timestamp, at)}

\* _sync_mark, the rows after the INSERT; processed_at is the store's clock.
sync_mark_rows(rows, topic, event_id, timestamp, at) ==
    IF IntegrityError(rows, topic, event_id)
    THEN rows
    ELSE rows \cup {Row(topic, event_id, timestamp, at)}

\* Mutant: the commit is missing, the file keeps its rows.
commit_lost(view, file) == file

\* conn.commit() in _sync_mark: the rows on file after the commit.
commit(view, file) == view

\* conn.commit() raises: the file keeps its rows, the INSERT stays in the
\* open transaction of the connection.
commit_raises(view, file) == file

\* datetime.now(): a reading not before the last one.
ClockReadings == {t \in now..(now + 1) : t <= MaxClock}

\* ---------------------------------------------------------------- counters

\* Mutant: the duplicate found by the pre-check is not counted.
publish_duplicate_uncounted(s) == s

\* publish, the pre-check found the identity: lines 63-68.
publish_duplicate(s) == [s EXCEPT !.duplicate_dropped = @ + 1]

\* Mutant: the event is not counted as received.
publish_received_uncounted(s) == s

\* publish, line 61.
publish_received(s) == [s EXCEPT !.received = @ + 1]

\* Mutant: every dequeued event is counted as processed.
process_event_stats_always_new(s, was_new) ==
    [s EXCEPT !.unique_processed = @ + 1]

\* _process_event, lines 106-115.
process_event_stats(s, was_new) ==
    IF was_new THEN [s EXCEPT !.unique_processed = @ + 1]
               ELSE [s EXCEPT !.duplicate_dropped = @ + 1]

\* self.stats of __init__ (lines 20-25); start_time is the reading of the
\* clock at construction.
ZeroStats == [received |-> 0, unique_processed |-> 0, duplicate_dropped |-> 0,
              start_time |-> 0]

\* ------------------------------------------------------------------- Init
IdlePub == [pc |-> "idle", batch |-> <<>>, i |-> 0, accepted |-> 0,
            rejected |-> 0, duplicates_immediate |-> 0, res |-> "none"]
NoWorker == [st |-> "none", ev |-> NoEvent, res |-> "none"]
IdleWorker == [st |-> "idle", ev |-> NoEvent, res |-> "none"]
NoArg == [given |-> FALSE, val |-> ""]
NoSnapshot == [received |-> 0, unique_processed |-> 0, duplicate_dropped |-> 0,
               topics |-> <<>>, uptime |-> 0]
IdleCall == [pc |-> "idle", store_stats |-> <<>>, snap |-> NoSnapshot]

\* The file db_path is new, or holds a row written by an earlier run.
InitStores == {{}, {Row("a", 1, 1, 0)}}

InitState ==
    /\ conn \in InitStores
    /\ disk = conn
    /\ store0 = conn
    /\ closed = FALSE
    /\ now = 0
    /\ queue = <<>>
    /\ stats = ZeroStats
    /\ running = FALSE
    /\ tasks = FALSE
    /\ workers = [w \in Workers |-> NoWorker]
    /\ pubs = [p \in Publishers |-> IdlePub]
    /\ stopPc = "none"
    /\ orphans = {}
    /\ fetched = <<>>
    /\ fetchArg = NoArg
    /\ pubCount = [id \in Ids |-> 0]
    /\ markTrue = [id \in Ids |-> 0]
    /\ markFalse = [id \in Ids |-> 0]
    /\ handed = 0
    /\ gen = 0
    /\ clears = 0
    /\ direct = 0
    /\ accepted = {}
    /\ faults = 0
    /\ raised = FALSE
    /\ statCall = IdleCall
    /\ stops = 0
    /\ poolStart = 0
    /\ oldLive = 0

Init == InitState /\ budget = MaxLifeEvents /\ faultBudget = 0
InitRun == InitState /\ budget = MaxEvents /\ faultBudget = 0
InitQuery == InitState /\ budget = 0 /\ faultBudget = 0
InitUptime == InitState /\ budget = 0 /\ faultBudget = 0
InitStats == InitState /\ budget = MaxStatEvents /\ faultBudget = 0
InitFault == InitState /\ budget = MaxFaultEvents /\ faultBudget = MaxFaults

storeVars == <<conn, disk, closed, now>>
histVars == <<store0, gen, clears, direct, budget, accepted>>
queryVars == <<fetched, fetchArg>>
faultVars == <<faults, faultBudget>>
callVars == <<raised, statCall, stops>>

\* ------------------------------------------------------------------ start
\* The consumer tasks that have not ended.
LiveTasks(ws) == Cardinality({w \in Workers : ws[w].st \notin {"none", "stopped"}})

\* Mutant: start() creates its tasks whatever the flag says.
not_running_unchecked(flag) == TRUE

\* start, line 31: `if not self.running`.
not_running(flag) == ~flag

\* EventAggregator.start: creates the five consumer tasks unless running;
\* the new list takes the place of the old one in consumer_tasks.
start ==
    /\ not_running(running)
    /\ running' = TRUE
    /\ tasks' = TRUE
    /\ workers' = [w \in Workers |-> IdleWorker]
    /\ oldLive' = oldLive + LiveTasks(workers)
    /\ poolStart' = now
    /\ UNCHANGED <<storeVars, queue, stats, pubs, stopPc, orphans, queryVars,
                   histVars, pubCount, markTrue, markFalse, handed,
                   faultVars, callVars>>

\* ---------------------------------------------------------------- publish
BatchesOf(p) ==
    UNION {[1..n -> EventsOf(p)] : n \in 1..MaxBatch}

\* publish, entered with a batch: the first event is counted and its
\* pre-check is handed to a thread (lines 54-63).
publish_call(p) ==
    /\ pubs[p].pc \in {"idle", "returned", "failed"}
    /\ \E b \in BatchesOf(p) :
        /\ handed + Len(b) <= budget
        /\ handed' = handed + Len(b)
        /\ pubs' = [pubs EXCEPT ![p] = [IdlePub EXCEPT !.pc = "check", !.batch = b, !.i = 1]]
        /\ pubCount' = [pubCount EXCEPT ![Identity(b[1])] = @ + 1]
    /\ stats' = publish_received(stats)
    /\ UNCHANGED <<storeVars, queue, running, tasks, workers, stopPc, orphans,
                   queryVars, histVars, markTrue, markFalse,
                   faultVars, poolStart, oldLive, callVars>>

\* The thread runs _sync_check under the lock; on a closed connection
\* sqlite3 raises ProgrammingError.  On an open one the SELECT may raise
\* sqlite3.OperationalError (database is locked, disk I/O error).
is_processed_run(p) ==
    /\ pubs[p].pc = "check"
    /\ LET e == pubs[p].batch[pubs[p].i]
           r == IF closed THEN "error"
                ELSE IF sync_check(conn, e.topic, e.event_id) THEN "found"
                ELSE "absent"
       IN \/ /\ pubs' = [pubs EXCEPT ![p].pc = "checked", ![p].res = r]
             /\ UNCHANGED faults
          \/ /\ ~closed
             /\ faults < faultBudget
             /\ faults' = faults + 1
             /\ pubs' = [pubs EXCEPT ![p].pc = "checked", ![p].res = "error"]
    /\ UNCHANGED <<storeVars, queue, stats, running, tasks, workers, stopPc,
                   orphans, queryVars, histVars, pubCount, markTrue, markFalse,
                   handed, faultBudget, poolStart, oldLive, callVars>>

\* Mutant: a rejected event is counted as an immediate duplicate only.
publish_result_no_reject(pb, found) ==
    IF found
    THEN [pb EXCEPT !.duplicates_immediate = @ + 1]
    ELSE [pb EXCEPT !.accepted = @ + 1]

\* The result counters of publish after the pre-check of one event.
publish_result(pb, found) ==
    IF found
    THEN [pb EXCEPT !.duplicates_immediate = @ + 1, !.rejected = @ + 1]
    ELSE [pb EXCEPT !.accepted = @ + 1]

\* The queue after the pre-check of one event (queue.put on an unbounded
\* asyncio.Queue does not suspend).
publish_queue(q, e, found) == IF found THEN q ELSE Append(q, e)

\* Mutant: publish catches the exception and returns its counters.
publish_raise_caught(pb) == [pb EXCEPT !.pc = "returned", !.res = "none"]

\* publish, line 63: nothing catches an exception of is_processed, the call
\* ends with it and the rest of the batch is not looked at.
publish_raise(pb) == [pb EXCEPT !.pc = "failed", !.res = "none"]

\* publish resumes with the result of the pre-check (lines 63-73): the
\* event is rejected or enqueued, then the next event is counted and its
\* pre-check submitted, or the call returns.  An exception of the store
\* propagates to the caller.
publish_resume(p) ==
    /\ pubs[p].pc = "checked"
    /\ LET pb == pubs[p]
           e == pb.batch[pb.i]
           found == pb.res = "found"
       IN IF pb.res = "error"
          THEN /\ pubs' = [pubs EXCEPT ![p] = publish_raise(pb)]
               /\ UNCHANGED <<queue, stats, pubCount>>
          ELSE LET pb1 == publish_result(pb, found)
                   s1 == IF found THEN publish_duplicate(stats) ELSE stats
               IN /\ queue' = publish_queue(queue, e, found)
                  /\ IF pb.i < Len(pb.batch)
                     THEN /\ pubs' = [pubs EXCEPT ![p] =
                                 [pb1 EXCEPT !.pc = "check", !.i = @ + 1, !.res = "none"]]
                          /\ stats' = publish_received(s1)
                          /\ pubCount' = [pubCount EXCEPT ![Identity(pb.batch[pb.i + 1])] = @ + 1]
                     ELSE /\ pubs' = [pubs EXCEPT ![p] =
                                 [pb1 EXCEPT !.pc = "returned", !.res = "none"]]
                          /\ stats' = s1
                          /\ UNCHANGED pubCount
    /\ UNCHANGED <<storeVars, running, tasks, workers, stopPc, orphans,
                   queryVars, histVars, markTrue, markFalse, handed,
                   faultVars, poolStart, oldLive, callVars>>

\* ---------------------------------------------------------------- workers
\* Mutant: a LifoQueue, get() returns the item put last.
queue_get_last(q) == [item |-> q[Len(q)], rest |-> SubSeq(q, 1, Len(q) - 1)]

\* asyncio.Queue.get on a non-empty queue: the item put first leaves.
queue_get(q) == [item |-> Head(q), rest |-> Tail(q)]

\* _consume_events, line 82: an idle consumer takes the head of the queue
\* and hands mark_processed to a thread (line 85, lines 100-104).  The
\* consumers run the same code and differ only in the worker_id they log,
\* so of the idle ones the lowest-numbered takes the event.
consume_get(w) ==
    /\ workers[w].st = "idle"
    /\ \A v \in Workers : v < w => workers[v].st # "idle"
    /\ queue # <<>>
    /\ workers' = [workers EXCEPT ![w] = [st |-> "deciding", ev |-> queue_get(queue).item, res |-> "none"]]
    /\ queue' = queue_get(queue).rest
    /\ UNCHANGED <<storeVars, stats, running, tasks, pubs, stopPc, orphans,
                   queryVars, histVars, pubCount, markTrue, markFalse, handed,
                   faultVars, poolStart, oldLive, callVars>>

\* The thread runs _sync_mark under the lock (lines 54-66).  On an open
\* connection the call returns, or the INSERT raises sqlite3.OperationalError
\* and leaves the rows alone, or the INSERT is executed and conn.commit()
\* raises it (database is locked): only IntegrityError is caught, and nothing
\* rolls the open transaction back.
mark_processed_run(w) ==
    /\ workers[w].st = "deciding"
    /\ LET e == workers[w].ev
           id == Identity(e)
       IN IF closed
          THEN /\ workers' = [workers EXCEPT ![w].st = "marked", ![w].res = "error"]
               /\ UNCHANGED <<conn, disk, now, markTrue, markFalse, faults>>
          ELSE \E at \in ClockReadings :
                LET was_new == sync_mark_result(conn, e.topic, e.event_id)
                    rows == sync_mark_rows(conn, e.topic, e.event_id, e.timestamp, at)
                IN \/ /\ conn' = rows
                      /\ disk' = commit(rows, disk)
                      /\ now' = at
                      /\ workers' = [workers EXCEPT ![w].st = "marked",
                                        ![w].res = IF was_new THEN "new" ELSE "dup"]
                      /\ markTrue' = [markTrue EXCEPT ![id] = IF was_new THEN @ + 1 ELSE @]
                      /\ markFalse' = [markFalse EXCEPT ![id] = IF was_new THEN @ ELSE @ + 1]
                      /\ UNCHANGED faults
                   \/ /\ faults < faultBudget
                      /\ at = now
                      /\ faults' = faults + 1
                      /\ workers' = [workers EXCEPT ![w].st = "marked", ![w].res = "error"]
                      /\ UNCHANGED <<conn, disk, now, markTrue, markFalse>>
                   \/ /\ faults < faultBudget
                      /\ was_new
                      /\ faults' = faults + 1
                      /\ conn' = rows
                      /\ disk' = commit_raises(rows, disk)
                      /\ now' = at
                      /\ workers' = [workers EXCEPT ![w].st = "marked", ![w].res = "error"]
                      /\ UNCHANGED <<markTrue, markFalse>>
    /\ UNCHANGED <<closed, queue, stats, running, tasks, pubs, stopPc, orphans,
                   queryVars, histVars, pubCount, handed,
                   faultBudget, poolStart, oldLive, callVars>>

\* Mutant: the exception ends the consumer task.
consume_except_exit(wk) == [st |-> "stopped", ev |-> NoEvent, res |-> "none"]

\* _consume_events, lines 93-94: the exception is logged, the loop goes on.
consume_except(wk) == IdleWorker

\* _process_event resumes with was_new (lines 106-115); an exception of the
\* store is caught and logged by _consume_events (lines 93-94).
process_event_resume(w) ==
    /\ workers[w].st = "marked"
    /\ IF workers[w].res = "error"
       THEN /\ workers' = [workers EXCEPT ![w] = consume_except(workers[w])]
            /\ UNCHANGED stats
       ELSE /\ stats' = process_event_stats(stats, workers[w].res = "new")
            /\ workers' = [workers EXCEPT ![w] =
                   IF workers[w].res = "new"
                   THEN [workers[w] EXCEPT !.st = "sleeping", !.res = "none"]
                   ELSE IdleWorker]
    /\ UNCHANGED <<storeVars, queue, running, tasks, pubs, stopPc, orphans,
                   queryVars, histVars, pubCount, markTrue, markFalse, handed,
                   faultVars, poolStart, oldLive, callVars>>

\* asyncio.sleep(0.0001) ends (line 110), queue.task_done() (line 86).
process_event_wake(w) ==
    /\ workers[w].st = "sleeping"
    /\ workers' = [workers EXCEPT ![w] = IdleWorker]
    /\ UNCHANGED <<storeVars, queue, stats, running, tasks, pubs, stopPc,
                   orphans, queryVars, histVars, pubCount, markTrue, markFalse,
                   handed, faultVars, poolStart, oldLive, callVars>>

NextRun ==
    \/ start
    \/ \E p \in Publishers : publish_call(p)
    \/ \E p \in Publishers : is_processed_run(p)
    \/ \E p \in Publishers : publish_resume(p)
    \/ \E w \in Workers : consume_get(w)
    \/ \E w \in Workers : mark_processed_run(w)
    \/ \E w \in Workers : process_event_resume(w)
    \/ \E w \in Workers : process_event_wake(w)

\* ------------------------------------------------------------------- stop
\* The events whose insert a thread still owns when stop() cancels the
\* consumer tasks: to_thread cannot recall a call that a thread has picked
\* up, and recalls one that is still waiting for a thread.
Deciding == {w \in Workers : workers[w].st = "deciding"}

\* Mutant: the consumer task swallows the cancellation and goes on.
cancel_task_ignored(wk) == wk

\* A consumer task after task.cancel(): CancelledError is raised at the
\* await where it is suspended (lines 90-92), whatever it was awaiting, as
\* asyncio documents for Task.cancel and wait_for.  (asyncio.wait_for of
\* CPython 3.11 and older returns the item instead when queue.get() had
\* already completed; that consumer then handles the item before it ends.
\* The model follows the documented behaviour.)
cancel_task(wk) == IF wk.st = "none" THEN wk ELSE [st |-> "stopped", ev |-> NoEvent, res |-> "none"]

\* Mutant: closing a connection that is closed already raises.
blocking_close_once(isClosed) == [closed |-> TRUE, raised |-> isClosed]

\* blocking_close, lines 126-128: conn.close() under the lock; sqlite3's
\* Connection.close() does nothing on a connection that is closed already.
blocking_close(isClosed) == [closed |-> TRUE, raised |-> FALSE]

\* One more stop() call has returned.
returned(n) == IF n < 2 THEN n + 1 ELSE n

\* EventAggregator.stop, lines 42-47: the flag is cleared and every
\* consumer task is cancelled; without tasks stop() returns at once.
\* One stop() call is in progress at a time.
stop ==
    /\ stopPc \in {"none", "done"}
    /\ running' = FALSE
    /\ IF tasks
       THEN /\ workers' = [w \in Workers |-> cancel_task(workers[w])]
            /\ \E S \in SUBSET Deciding :
                  orphans' = orphans \cup {workers[w].ev : w \in S}
            /\ stopPc' = "closing"
            /\ UNCHANGED stops
       ELSE /\ stopPc' = "done"
            /\ stops' = returned(stops)
            /\ UNCHANGED <<workers, orphans>>
    /\ UNCHANGED <<storeVars, queue, stats, tasks, pubs, queryVars, histVars,
                   pubCount, markTrue, markFalse, handed,
                   faultVars, poolStart, oldLive, raised, statCall>>

\* EventAggregator.stop, line 49: gather() has returned, the store's close()
\* runs conn.close() in a thread under the lock; stop() returns, or ends
\* with the exception of close().
stop_close ==
    /\ stopPc = "closing"
    /\ closed' = blocking_close(closed).closed
    /\ raised' = (raised \/ blocking_close(closed).raised)
    /\ stopPc' = "done"
    /\ stops' = returned(stops)
    /\ UNCHANGED <<conn, disk, now, queue, stats, running, tasks, workers, pubs,
                   orphans, queryVars, histVars, pubCount, markTrue, markFalse,
                   handed, faultVars, poolStart, oldLive, statCall>>

\* DeduplicationStore.close called on the store directly once stop() has
\* returned, as the fixture of the tests does (test_aggregator.py, lines
\* 31-32).
close ==
    /\ stopPc = "done"
    /\ closed' = blocking_close(closed).closed
    /\ raised' = (raised \/ blocking_close(closed).raised)
    /\ UNCHANGED <<conn, disk, now, queue, stats, running, tasks, workers, pubs,
                   stopPc, orphans, queryVars, histVars, pubCount, markTrue,
                   markFalse, handed, faultVars, poolStart, oldLive, statCall, stops>>

\* A thread runs the _sync_mark of a cancelled consumer task; nobody awaits
\* its result.  On a closed connection the INSERT raises.
orphan_mark(e) ==
    /\ e \in orphans
    /\ orphans' = orphans \ {e}
    /\ IF closed
       THEN UNCHANGED <<conn, disk, now, markTrue, markFalse>>
       ELSE \E at \in ClockReadings :
             LET was_new == sync_mark_result(conn, e.topic, e.event_id)
                 rows == sync_mark_rows(conn, e.topic, e.event_id, e.timestamp, at)
             IN /\ conn' = rows
                /\ disk' = commit(rows, disk)
                /\ now' = at
                /\ markTrue' = [markTrue EXCEPT ![Identity(e)] = IF was_new THEN @ + 1 ELSE @]
                /\ markFalse' = [markFalse EXCEPT ![Identity(e)] = IF was_new THEN @ ELSE @ + 1]
    /\ UNCHANGED <<closed, queue, stats, running, tasks, workers, pubs, stopPc,
                   queryVars, histVars, pubCount, handed,
                   faultVars, poolStart, oldLive, callVars>>

\* DeduplicationStore(db_path) and EventAggregator(store) are constructed
\* anew on the file of a store that stop() has closed
\* (test_2_persistence_after_restart, lines 77-82).  The connection reads
\* the committed rows; counters, queue and tasks are those of __init__.
restart ==
    /\ stopPc = "done"
    /\ closed
    /\ gen < MaxRestarts
    /\ gen' = gen + 1
    /\ accepted' = accepted \cup {id \in Ids : markTrue[id] > 0}
    /\ conn' = disk
    /\ store0' = disk
    /\ closed' = FALSE
    /\ queue' = <<>>
    /\ stats' = [ZeroStats EXCEPT !.start_time = now]
    /\ running' = FALSE
    /\ tasks' = FALSE
    /\ workers' = [w \in Workers |-> NoWorker]
    /\ pubs' = [p \in Publishers |-> IdlePub]
    /\ stopPc' = "none"
    /\ orphans' = {}
    /\ pubCount' = [id \in Ids |-> 0]
    /\ markTrue' = [id \in Ids |-> 0]
    /\ markFalse' = [id \in Ids |-> 0]
    /\ stops' = 0
    /\ poolStart' = now
    /\ oldLive' = 0
    /\ UNCHANGED <<disk, now, queryVars, handed, budget, clears, direct,
                   faultVars, raised, statCall>>

\* ------------------------------------------------------------------ clear
\* _sync_clear: DELETE FROM processed_events, commit.
sync_clear(rows) == {}

\* DeduplicationStore.clear on an open connection.
clear ==
    /\ clears < MaxClears
    /\ ~closed
    /\ clears' = clears + 1
    /\ conn' = sync_clear(conn)
    /\ disk' = commit(sync_clear(conn), disk)
    /\ UNCHANGED <<closed, now, queue, stats, running, tasks, workers, pubs,
                   stopPc, orphans, queryVars, store0, gen, direct, budget,
                   accepted, pubCount, markTrue, markFalse, handed,
                   faultVars, poolStart, oldLive, callVars>>

\* ---------------------------------------------------------------- queries
\* `if topic:` in _sync_fetch_events: None and the empty string are falsy.
Truthy(arg) == arg.given /\ arg.val # ""

\* The rows the SELECT of _sync_fetch_events matches.
Selected(rows, arg) ==
    IF Truthy(arg) THEN {r \in rows : r.topic = arg.val} ELSE rows

\* ORDER BY processed_at DESC; the order of equal keys is SQLite's choice.
OrderedDesc(sq) ==
    \A i, j \in 1..Len(sq) : i < j => sq[i].processed_at >= sq[j].processed_at

\* _sync_fetch_events: the lists cursor.fetchall() may return.
sync_fetch_events(rows, arg) ==
    LET sel == Selected(rows, arg)
        n == Cardinality(sel)
    IN {sq \in [1..n -> sel] :
            /\ \A i, j \in 1..n : i # j => sq[i] # sq[j]
            /\ OrderedDesc(sq)}

\* The topic arguments of get_events: None, the empty string, topics in
\* use and one that no event carries.
TopicArgs == {NoArg} \cup {[given |-> TRUE, val |-> t] : t \in {"", "a", "b", "c"}}

\* EventAggregator.get_events / DeduplicationStore.get_processed_events.
get_events(arg) ==
    /\ ~closed
    /\ \E sq \in sync_fetch_events(conn, arg) : fetched' = sq
    /\ fetchArg' = arg
    /\ UNCHANGED <<storeVars, queue, stats, running, tasks, workers, pubs,
                   stopPc, orphans, histVars, pubCount, markTrue, markFalse,
                   handed, faultVars, poolStart, oldLive, callVars>>

\* DeduplicationStore.mark_processed called on the store directly.
mark_processed(e) ==
    /\ direct < MaxDirect
    /\ ~closed
    /\ direct' = direct + 1
    /\ \E at \in ClockReadings :
         LET was_new == sync_mark_result(conn, e.topic, e.event_id)
             rows == sync_mark_rows(conn, e.topic, e.event_id, e.timestamp, at)
         IN /\ conn' = rows
            /\ disk' = commit(rows, disk)
            /\ now' = at
            /\ markTrue' = [markTrue EXCEPT ![Identity(e)] = IF was_new THEN @ + 1 ELSE @]
            /\ markFalse' = [markFalse EXCEPT ![Identity(e)] = IF was_new THEN @ ELSE @ + 1]
    /\ UNCHANGED <<closed, queue, stats, running, tasks, workers, pubs, stopPc,
                   orphans, queryVars, store0, gen, clears, budget, accepted,
                   pubCount, handed, faultVars, poolStart, oldLive, callVars>>

\* Mutant: every topic is given the number of all rows.
sync_get_stats_total(rows) ==
    [total_unique |-> Cardinality(rows),
     topics |-> [t \in {r.topic : r \in rows} |-> Cardinality(rows)]]

\* _sync_get_stats, lines 97-107: COUNT(*), and COUNT(*) ... GROUP BY topic
\* as a dict from the topics that have rows to their number of rows.
sync_get_stats(rows) ==
    [total_unique |-> Cardinality(rows),
     topics |-> [t \in {r.topic : r \in rows} |->
                    Cardinality({r \in rows : r.topic = t})]]

\* get_stats, line 120: time.time() - self.stats["start_time"], in whole
\* readings of the clock.
uptime(time, start_time) == time - start_time

\* EventAggregator.get_stats, line 119: the thread runs _sync_get_stats
\* under the lock.
get_stats_run ==
    /\ statCall.pc \in {"idle", "returned"}
    /\ ~closed
    /\ statCall' = [pc |-> "query", store_stats |-> sync_get_stats(conn),
                    snap |-> NoSnapshot]
    /\ UNCHANGED <<storeVars, queue, stats, running, tasks, workers, pubs,
                   stopPc, orphans, queryVars, histVars, pubCount, markTrue,
                   markFalse, handed, faultVars, poolStart, oldLive, raised, stops>>

\* EventAggregator.get_stats, lines 120-128: the call resumes and builds
\* the StatsResponse from the counters as they are now and the topics of
\* the store's answer.
get_stats_resume ==
    /\ statCall.pc = "query"
    /\ statCall' = [statCall EXCEPT
            !.pc = "returned",
            !.snap = [received |-> stats.received,
                      unique_processed |-> stats.unique_processed,
                      duplicate_dropped |-> stats.duplicate_dropped,
                      topics |-> statCall.store_stats.topics,
                      uptime |-> uptime(now, stats.start_time)]]
    /\ UNCHANGED <<storeVars, queue, stats, running, tasks, workers, pubs,
                   stopPc, orphans, queryVars, histVars, pubCount, markTrue,
                   markFalse, handed, faultVars, poolStart, oldLive, raised, stops>>

\* Time passes: the next reading of the wall clock is later.
tick ==
    /\ now < MaxTime
    /\ now' = now + 1
    /\ UNCHANGED <<conn, disk, closed, queue, stats, running, tasks, workers,
                   pubs, stopPc, orphans, queryVars, histVars, pubCount,
                   markTrue, markFalse, handed, faultVars, poolStart, oldLive, callVars>>

\* The aggregator started, queried by get_stats and stopped as time passes.
NextUptime ==
    \/ tick
    \/ start
    \/ get_stats_run
    \/ get_stats_resume
    \/ stop
    \/ stop_close

\* The aggregator in service with its two queries.
NextStats ==
    \/ NextRun
    \/ get_stats_run
    \/ get_stats_resume
    \/ \E arg \in TopicArgs : get_events(arg)

NextQuery ==
    \/ \E p \in Publishers : \E e \in EventsOf(p) : mark_processed(e)
    \/ clear
    \/ \E arg \in TopicArgs : get_events(arg)

Next ==
    \/ NextRun
    \/ stop
    \/ stop_close
    \/ close
    \/ \E e \in orphans : orphan_mark(e)
    \/ restart
    \/ clear

\* ------------------------------------------------------------------------
\* Properties
\* ------------------------------------------------------------------------
PubBusy(p) == pubs[p].pc \in {"check", "checked"}
NoPublishInProgress == \A p \in Publishers : ~PubBusy(p)
WorkerHolding(w) == workers[w].st \in {"deciding", "marked", "sleeping"}
\* Queue drained: the queue is empty and no worker holds a dequeued event.
Drained == queue = <<>> /\ \A w \in Workers : ~WorkerHolding(w)
PublishedOnly(id) == \A j \in Ids : j # id => pubCount[j] = 0
RowsOf(rows, id) == {r \in rows : <<r.topic, r.event_id>> = id}

\* C1: when one identity, absent from the store at construction, has been
\* published N >= 1 times over any publish calls to a started pool, then
\* once the publish calls are over and the queue is drained,
\* unique_processed = 1 and duplicate_dropped = N - 1.
Idempotency ==
    \A id \in Ids :
        ( /\ tasks
          /\ Drained /\ NoPublishInProgress
          /\ PublishedOnly(id) /\ pubCount[id] >= 1
          /\ id \notin RowIds(store0) )
        => /\ stats.unique_processed = 1
           /\ stats.duplicate_dropped = pubCount[id] - 1

\* One identity published three times by two publishers, all decided.
IdempotencyWitness ==
    \E id \in Ids :
        /\ tasks /\ Drained /\ NoPublishInProgress
        /\ PublishedOnly(id) /\ pubCount[id] = 3
        /\ id \notin RowIds(store0)
        /\ \A p \in Publishers : pubs[p].pc = "returned"
        /\ stats.duplicate_dropped = 2

\* C2: a mark_processed call returns True iff it created the record and
\* False iff a record of the identity existed; of the calls made for an
\* identity that was absent, exactly one returns True and the others False.
AtomicInsertCounts ==
    \A id \in Ids :
        /\ markTrue[id] = IF id \notin RowIds(store0) /\ markTrue[id] + markFalse[id] >= 1
                          THEN 1 ELSE 0
        /\ Cardinality(RowsOf(conn, id)) <= 1
AtomicInsertStep ==
    \A w \in Workers :
        (workers[w].st = "deciding" /\ workers'[w].st = "marked")
        => LET id == Identity(workers[w].ev)
           IN /\ (workers'[w].res = "new") <=> (id \notin RowIds(conn))
              /\ (workers'[w].res = "new") <=> (conn' # conn)
              /\ (workers'[w].res = "new") => RowsOf(conn', id) # {} /\ conn' \ conn = RowsOf(conn', id)
              /\ (workers'[w].res = "dup") <=> (id \in RowIds(conn))
AtomicInsert == []AtomicInsertCounts /\ [][AtomicInsertStep]_vars

\* Two consumers decided the same identity concurrently: one call returned
\* True, the other False.
AtomicInsertWitness ==
    \E w1, w2 \in Workers :
        /\ workers[w1].st = "marked" /\ workers[w1].res = "new"
        /\ workers[w2].st = "marked" /\ workers[w2].res = "dup"
        /\ Identity(workers[w1].ev) = Identity(workers[w2].ev)

AllUnique ==
    \A id \in Ids : pubCount[id] <= 1 /\ (pubCount[id] = 1 => id \notin RowIds(store0))
ConcurrencySafety ==
    (Drained /\ NoPublishInProgress /\ AllUnique)
    => /\ stats.unique_processed = stats.received
       /\ stats.duplicate_dropped = 0
       /\ \A id \in Ids : pubCount[id] = 1 => Cardinality(RowsOf(conn, id)) = 1

\* Both publishers returned, three distinct identities, all processed.
ConcurrencySafetyWitness ==
    /\ Drained /\ NoPublishInProgress /\ AllUnique
    /\ \A p \in Publishers : pubs[p].pc = "returned"
    /\ stats.received = 3
    /\ stats.unique_processed = 3

\* C7: a publish call handles its events in order; for each, either the
\* pre-check found the identity, and rejected, duplicates_immediate and
\* duplicate_dropped grow by one with the queue unchanged, or the event is
\* appended to the queue once and accepted grows by one; received grows by
\* one per event.  At a normal return accepted + rejected is the batch
\* length and rejected = duplicates_immediate.
PublishAccountingState ==
    \A p \in Publishers :
        LET pb == pubs[p] IN
        /\ PubBusy(p) => /\ pb.accepted + pb.rejected = pb.i - 1
                         /\ pb.rejected = pb.duplicates_immediate
                         /\ pb.i \in 1..Len(pb.batch)
        /\ pb.pc = "returned" => /\ pb.accepted + pb.rejected = Len(pb.batch)
                                 /\ pb.rejected = pb.duplicates_immediate
                                 /\ pb.i = Len(pb.batch)
PublishAccountingStep ==
    \A p \in Publishers :
        LET pb == pubs[p]
            pn == pubs'[p]
        IN
        /\ (pb.pc = "check" /\ pn.pc = "checked" /\ pn.res # "error")
           => ((pn.res = "found") <=> (Identity(pb.batch[pb.i]) \in RowIds(conn)))
        /\ (pb.pc = "checked" /\ pn.pc \in {"check", "returned"})
           => /\ IF pb.res = "found"
                 THEN /\ queue' = queue
                      /\ pn.rejected = pb.rejected + 1
                      /\ pn.duplicates_immediate = pb.duplicates_immediate + 1
                      /\ pn.accepted = pb.accepted
                      /\ stats'.duplicate_dropped = stats.duplicate_dropped + 1
                 ELSE /\ queue' = Append(queue, pb.batch[pb.i])
                      /\ pn.accepted = pb.accepted + 1
                      /\ pn.rejected = pb.rejected
                      /\ pn.duplicates_immediate = pb.duplicates_immediate
                      /\ stats'.duplicate_dropped = stats.duplicate_dropped
              /\ pn.batch = pb.batch
              /\ IF pn.pc = "check"
                 THEN pn.i = pb.i + 1 /\ stats'.received = stats.received + 1
                 ELSE pn.i = pb.i /\ stats'.received = stats.received
        /\ (~PubBusy(p) /\ pn.pc = "check")
           => pn.i = 1 /\ stats'.received = stats.received + 1
PublishAccounting == []PublishAccountingState /\ [][PublishAccountingStep]_vars

\* A publish call returned after rejecting one event of its batch and
\* enqueuing the other.
PublishAccountingWitness ==
    \E p \in Publishers :
        /\ pubs[p].pc = "returned"
        /\ Len(pubs[p].batch) = 2
        /\ pubs[p].accepted = 1
        /\ pubs[p].rejected = 1

\* C5: in an aggregator opened on the file of a store that stop() closed,
\* every identity inserted through the closed instance is still in the
\* store; while only such identities are published there, unique_processed
\* stays 0, and a publish call that has returned has raised
\* duplicate_dropped to at least 1.
Durability ==
    (gen >= 1 /\ clears = 0)
    => /\ accepted \subseteq RowIds(conn)
       /\ accepted \subseteq RowIds(store0)
       /\ (\A id \in Ids : pubCount[id] > 0 => id \in accepted)
          => /\ stats.unique_processed = 0
             /\ (\E p \in Publishers : pubs[p].pc = "returned")
                => stats.duplicate_dropped >= 1

\* An identity inserted before the restart was republished to the new
\* aggregator and the call returned.
DurabilityWitness ==
    /\ gen >= 1 /\ clears = 0
    /\ accepted # {}
    /\ \A id \in Ids : pubCount[id] > 0 => id \in accepted
    /\ \E p \in Publishers : pubs[p].pc = "returned"
    /\ stats.received >= 1
    /\ stats.duplicate_dropped >= 1
    /\ stats.unique_processed = 0

\* C6: in every step that is not a clear(), each row of the store stays,
\* with its timestamp and processed_at, the only row of its identity.
RecordPermanentStep ==
    clears' = clears
    => \A r \in conn :
          /\ r \in conn'
          /\ r \in disk'
          /\ \A q \in conn' : Identity(q) = Identity(r) => q = r
RecordPermanent == [][RecordPermanentStep]_vars

\* A consumer's insert for a stored identity, carrying another timestamp,
\* was turned down.
RecordPermanentWitness ==
    \E w \in Workers :
        /\ workers[w].st = "marked" /\ workers[w].res = "dup"
        /\ \E r \in conn : /\ Identity(r) = Identity(workers[w].ev)
                            /\ r.timestamp # workers[w].ev.timestamp

\* C8: get_events(topic) returns exactly the rows of that topic, for every
\* topic value, newest processed_at first; without a topic it returns all
\* rows in that order.
GetEventsExactStep ==
    (fetched' # fetched \/ fetchArg' # fetchArg)
    => LET want == IF fetchArg'.given
                   THEN {r \in conn : r.topic = fetchArg'.val}
                   ELSE conn
       IN /\ {fetched'[i] : i \in 1..Len(fetched')} = want
          /\ Len(fetched') = Cardinality(want)
          /\ OrderedDesc(fetched')
GetEventsExact == [][GetEventsExactStep]_vars

\* C9: a consumer task terminates only when the queue is empty, so that no
\* event enqueued before stop() is left undecided.
ShutdownDrainsStep ==
    \A w \in Workers :
        (workers[w].st \in {"idle", "deciding", "marked", "sleeping"}
            /\ workers'[w].st = "stopped")
        => queue = <<>>
ShutdownDrains == [][ShutdownDrainsStep]_vars

\* C10: once stop() has been called on a started aggregator, no step adds an
\* item to the queue.
NoEnqueueAfterStopStep ==
    (tasks /\ stopPc # "none" /\ ~running /\ gen' = gen) => Len(queue') <= Len(queue)
NoEnqueueAfterStop == [][NoEnqueueAfterStopStep]_vars

\* C11: a stop() made after a stop() that returned, without a start() in
\* between, or made on an aggregator that was never started, changes
\* neither the counters, the queue nor the rows of the store, and no stop()
\* or close() call ends with an exception.
StopIdempotentStep ==
    (/\ stopPc' # stopPc
     /\ gen' = gen
     /\ ~running
     /\ stops >= 1 \/ ~tasks)
    => /\ UNCHANGED <<stats, queue, conn, disk, orphans>>
       /\ closed' = (closed \/ tasks)
StopIdempotent == [](~raised) /\ [][StopIdempotentStep]_vars

\* A second stop() has returned on an aggregator that had counted events
\* and stored a row.
StopIdempotentWitness ==
    /\ stops = 2
    /\ tasks /\ ~running /\ stopPc = "done" /\ closed
    /\ stats.received >= 1
    /\ stats.unique_processed >= 1
    /\ queue # <<>>

\* C12: a consumer whose store operation raised goes back to waiting on the
\* queue, no consumer of a started pool has ended, and once an operation of
\* the store has raised, the events in the queue and those enqueued later
\* are all dequeued and decided.
WorkerSurvivesStep ==
    \A w \in Workers :
        (workers[w].st = "marked" /\ workers[w].res = "error"
            /\ workers'[w] # workers[w])
        => workers'[w].st = "idle"
PoolAlive == tasks => \A w \in Workers : workers[w].st # "stopped"
WorkerSurvives ==
    /\ []PoolAlive
    /\ [][WorkerSurvivesStep]_vars
    /\ (tasks /\ faults >= 1 /\ ~Drained) ~> Drained

\* A consumer's insert raised at the commit, and an insert made later was
\* committed: the queue is drained and the consumers wait for events.
WorkerSurvivesWitness ==
    /\ faults = 1
    /\ Drained
    /\ \A w \in Workers : workers[w].st = "idle"
    /\ stats.unique_processed >= 1
    /\ \E id \in Ids :
          /\ id \notin RowIds(store0)
          /\ markTrue[id] = 0
          /\ RowsOf(disk, id) # {}

\* C13: an insert-if-absent that raised has marked nothing: an identity has a
\* row, in the connection's view or on file, only if it had one when the
\* store was constructed or an insert for it has returned True.
NotMarkedOnFailure ==
    \A id \in Ids :
        (RowsOf(conn, id) # {} \/ RowsOf(disk, id) # {})
        => (id \in RowIds(store0) \/ markTrue[id] > 0)

\* C14: when the pre-check raises for an event of a batch, the publish call
\* ends with the exception and leaves the queue as it is, and the events it
\* had enqueued before are dequeued and decided by a started pool.
PublishFailureStep ==
    \A p \in Publishers :
        (pubs[p].pc = "checked" /\ pubs[p].res = "error" /\ pubs'[p] # pubs[p])
        => /\ pubs'[p].pc = "failed"
           /\ pubs'[p].accepted = pubs[p].accepted
           /\ queue' = queue
           /\ stats' = stats
PublishFailure ==
    /\ [][PublishFailureStep]_vars
    /\ (tasks /\ \E p \in Publishers : pubs[p].pc = "failed" /\ pubs[p].accepted >= 1)
          ~> Drained

\* A publish call failed at its second event; its first event was enqueued
\* and has been inserted by a consumer.
PublishFailureWitness ==
    \E p \in Publishers :
        /\ pubs[p].pc = "failed"
        /\ pubs[p].i = 2
        /\ pubs[p].accepted = 1
        /\ Drained
        /\ stats.unique_processed = 1
        /\ markTrue[Identity(pubs[p].batch[1])] = 1
        /\ pubCount[Identity(pubs[p].batch[1])] = 1

\* C15: a consumer task ends only while it holds no undecided event: a
\* consumer that has dequeued an event finishes the insert and the counter
\* update before it ends, so every row inserted by a consumer is counted.
DecidesBeforeStopStep ==
    \A w \in Workers :
        (workers'[w].st = "stopped" /\ workers[w].st # "stopped")
        => workers[w].st \in {"idle", "sleeping"}
InsertedIsCounted ==
    (gen = 0 /\ direct = 0 /\ \A w \in Workers : workers[w].st # "marked")
    => Cardinality({id \in Ids : markTrue[id] > 0}) <= stats.unique_processed
DecidesBeforeStop == []InsertedIsCounted /\ [][DecidesBeforeStopStep]_vars

\* C16: stop() closes the store only when every consumer task has ended,
\* and once the store is closed no insert that was started for a consumer
\* runs on it, the inserts already handed to a thread included.
CloseAfterWorkersStep ==
    /\ (stopPc = "closing" /\ stopPc' = "done" /\ ~running)
       => \A w \in Workers : workers[w].st = "stopped"
    /\ (closed /\ gen' = gen) => orphans \subseteq orphans'
CloseAfterWorkers == [][CloseAfterWorkersStep]_vars

\* C17: after stop() on a started aggregator every consumer task has ended,
\* whether the queue is empty or not, and the stop() call returns.
WorkersEnded == \A w \in Workers : workers[w].st = "stopped"
StopCalled == tasks /\ ~running /\ stopPc # "none"
ShutdownTerminates ==
    /\ [](StopCalled => WorkersEnded)
    /\ (stopPc = "closing") ~> (stopPc = "done" /\ stops >= 1)

\* stop() has returned on a started aggregator that had an event left in
\* its queue and consumers at work when it was called.
ShutdownTerminatesWitness ==
    /\ StopCalled /\ stopPc = "done" /\ stops = 1 /\ closed
    /\ WorkersEnded
    /\ queue # <<>>
    /\ orphans # {}

\* C18: when publishes of one identity, absent from the store at
\* construction, have passed the pre-check more than once, so that two or
\* more events of it were enqueued and dequeued, the consumers count exactly
\* one of them in unique_processed and every other one in duplicate_dropped.
PreCheckRace ==
    \A id \in Ids :
        (/\ tasks
         /\ PublishedOnly(id)
         /\ id \notin RowIds(store0)
         /\ NoPublishInProgress
         /\ Drained
         /\ markTrue[id] + markFalse[id] >= 2)
        => /\ markTrue[id] = 1
           /\ stats.unique_processed = 1
           /\ stats.duplicate_dropped = pubCount[id] - 1
           /\ stats.duplicate_dropped >= markFalse[id]
           /\ Cardinality(RowsOf(conn, id)) = 1

\* Two publish calls of one new identity have both returned accepted = 1;
\* the consumers counted one event as unique and one as a duplicate.
PreCheckRaceWitness ==
    \E id \in Ids :
        /\ PublishedOnly(id) /\ id \notin RowIds(store0)
        /\ pubCount[id] = 2
        /\ \E p, q \in Publishers :
              /\ p # q
              /\ \A c \in {p, q} :
                    /\ pubs[c].pc = "returned"
                    /\ pubs[c].accepted = 1 /\ pubs[c].rejected = 0
                    /\ Len(pubs[c].batch) = 1
        /\ Drained
        /\ markTrue[id] = 1 /\ markFalse[id] = 1
        /\ stats.unique_processed = 1 /\ stats.duplicate_dropped = 1

\* C19: the queue is first-in first-out.  A step that enqueues puts the
\* event that a publish call has just pre-checked behind the events
\* already queued, the calls taking the events of their batch in batch
\* order; a step that dequeues gives the oldest queued event to a waiting
\* consumer and leaves the others in their order.
QueueFifoStep ==
    /\ Len(queue') > Len(queue)
       => \E p \in Publishers :
             /\ pubs[p].pc = "checked"
             /\ queue' = Append(queue, pubs[p].batch[pubs[p].i])
             /\ \/ pubs'[p].pc = "returned" /\ pubs[p].i = Len(pubs[p].batch)
                \/ pubs'[p].pc = "check" /\ pubs'[p].i = pubs[p].i + 1
             /\ pubs'[p].batch = pubs[p].batch
    /\ Len(queue') < Len(queue)
       => /\ queue' = Tail(queue)
          /\ \E w \in Workers :
                /\ workers[w].st = "idle"
                /\ workers'[w].st = "deciding"
                /\ workers'[w].ev = Head(queue)
    /\ Len(queue') = Len(queue) => queue' = queue
QueueFifo == [][QueueFifoStep]_vars

\* The two events of one batch were both queued and have been dequeued in
\* batch order, the first by the first consumer.
QueueFifoWitness ==
    \E p \in Publishers :
        /\ pubs[p].pc = "returned"
        /\ Len(pubs[p].batch) = 2
        /\ pubs[p].accepted = 2
        /\ pubs[p].batch[1] # pubs[p].batch[2]
        /\ workers[1].st = "deciding" /\ workers[1].ev = pubs[p].batch[1]
        /\ workers[2].st = "deciding" /\ workers[2].ev = pubs[p].batch[2]
        /\ queue = <<>>
        /\ handed = 2

\* C20: a step of get_stats or get_events leaves the counters, start_time,
\* the queue, the running flag and the rows of the store unchanged; the
\* answer of the store holds, for each topic with rows, its number of rows
\* at the moment of the query, and the snapshot returned carries these
\* topics and the three counters as they are when the call returns.
QueryStep == statCall' # statCall \/ fetched' # fetched \/ fetchArg' # fetchArg
ReadOnlyStep ==
    /\ QueryStep
       => UNCHANGED <<stats, queue, running, tasks, conn, disk, closed, now,
                      workers, pubs>>
    /\ (statCall.pc # "query" /\ statCall'.pc = "query")
       => LET topics == statCall'.store_stats.topics
          IN /\ DOMAIN topics = {t \in Topics : \E r \in conn : r.topic = t}
             /\ \A t \in DOMAIN topics :
                   topics[t] = Cardinality({id \in RowIds(conn) : id[1] = t})
    /\ (statCall.pc = "query" /\ statCall'.pc = "returned")
       => /\ statCall'.snap.received = stats.received
          /\ statCall'.snap.unique_processed = stats.unique_processed
          /\ statCall'.snap.duplicate_dropped = stats.duplicate_dropped
          /\ statCall'.snap.topics = statCall.store_stats.topics
ReadOnly == [][ReadOnlyStep]_vars

\* get_stats has returned a snapshot with counted events and two topics,
\* and get_events has returned rows, while events were being processed.
ReadOnlyWitness ==
    /\ statCall.pc = "returned"
    /\ statCall.snap.received = 2
    /\ statCall.snap.unique_processed >= 1
    /\ DOMAIN statCall.snap.topics = {"a", "b"}
    /\ statCall.snap.topics["a"] = 2
    /\ fetchArg.given /\ fetchArg.val = "a" /\ Len(fetched) = 2
    /\ \E w \in Workers : workers[w].st = "sleeping"

\* C21: the uptime in the snapshot that get_stats returns on a started
\* aggregator is the time elapsed since start() created the pool.
UptimeSincePoolStartStep ==
    (statCall.pc = "query" /\ statCall'.pc = "returned" /\ tasks)
    => statCall'.snap.uptime = now - poolStart
UptimeSincePoolStart == [][UptimeSincePoolStartStep]_vars

\* C22: in every state of an aggregator in service, drained or not,
\* received exceeds unique_processed + duplicate_dropped by exactly the
\* number of events counted as received and not yet decided: those whose
\* pre-check is pending or not yet acted on, those in the queue, and those
\* a consumer holds without having updated a counter.  No step lowers a
\* counter.
Undecided ==
    Cardinality({p \in Publishers : PubBusy(p)})
    + Len(queue)
    + Cardinality({w \in Workers : workers[w].st \in {"deciding", "marked"}})
CountersBoundedState ==
    /\ stats.unique_processed + stats.duplicate_dropped <= stats.received
    /\ stats.received - (stats.unique_processed + stats.duplicate_dropped)
          = Undecided
CountersMonotonicStep ==
    /\ stats'.received >= stats.received
    /\ stats'.unique_processed >= stats.unique_processed
    /\ stats'.duplicate_dropped >= stats.duplicate_dropped
CountersBounded == []CountersBoundedState /\ [][CountersMonotonicStep]_vars

\* Before the drain: three events received and none decided, one between
\* its pre-check and the enqueue, one in the queue, one held by a consumer
\* whose insert has run.
CountersBoundedWitness ==
    /\ stats.received = 3
    /\ stats.unique_processed + stats.duplicate_dropped = 0
    /\ \E p \in Publishers : pubs[p].pc = "checked"
    /\ Len(queue) = 1
    /\ \E w \in Workers : workers[w].st = "marked"

\* C23: on a store that was empty when the aggregator was created and that
\* no clear() has emptied, unique_processed never exceeds the number of
\* rows, and equals it whenever the queue is drained.
UniqueMatchesStore ==
    (store0 = {} /\ clears = 0)
    => /\ stats.unique_processed <= Cardinality(conn)
       /\ Drained => stats.unique_processed = Cardinality(conn)

\* C24: once the start() and stop() calls made so far have returned, at
\* most five consumer tasks are running, and none when the aggregator is
\* stopped or was never started; a step of a running aggregator adds no
\* consumer task.
Live == oldLive + LiveTasks(workers)
FixedPoolState ==
    stopPc # "closing"
    => /\ Live <= NumWorkers
       /\ ~running => Live = 0
       /\ running => Live = NumWorkers
FixedPoolStep ==
    (running /\ running')
    => /\ oldLive' = oldLive
       /\ \A w \in Workers :
             workers[w].st \in {"none", "stopped"}
             => workers'[w].st \in {"none", "stopped"}
SpecRun == InitRun /\ [][NextRun]_vars

\* The whole life of the service: shutdown, restart on the same file, and
\* the administrative clear().
Spec == Init /\ [][Next]_vars

\* The event loop runs every callback that is ready and the thread pool
\* finishes every call it was handed: no step of a publish call or of a
\* consumer task waits forever.
FairRun ==
    /\ \A p \in Publishers : WF_vars(is_processed_run(p)) /\ WF_vars(publish_resume(p))
    /\ \A w \in Workers :
          /\ WF_vars(consume_get(w))
          /\ WF_vars(mark_processed_run(w))
          /\ WF_vars(process_event_resume(w))
          /\ WF_vars(process_event_wake(w))

\* The aggregator in service on a store whose operations may raise.
SpecFault == InitFault /\ [][NextRun]_vars /\ FairRun

\* The whole life of the service; the thread pool runs the close() that
\* stop() awaits.
SpecStop == Init /\ [][Next]_vars /\ WF_vars(stop_close)

\* The aggregator in service, queried by get_stats and get_events.
SpecStats == InitStats /\ [][NextStats]_vars

\* The aggregator constructed, started at some later time and queried.
SpecUptime == InitUptime /\ [][NextUptime]_vars

\* The store used directly: inserts, clear() and the event query.
SpecQuery == InitQuery /\ [][NextQuery]_vars
====
